---- MODULE Spec2Model ----
(***************************************************************************)
(* A model of simple_search: the Levenshtein primitives                    *)
(* (src/src/levenshtein/base.rs), the incremental matrix                   *)
(* (src/src/levenshtein/incremental.rs), the similarity combinators        *)
(* (src/src/similarity.rs) and the search engine                           *)
(* (src/src/search_engine.rs).                                             *)
(*                                                                         *)
(* A string is a sequence of Unicode scalar values (code points).  Rust's  *)
(* str::len is the length of the UTF-8 encoding in bytes, str::chars().nth *)
(* indexes scalar values; the two are kept apart here as in the source.    *)
(* An f64 is a sign, an exponent and a significand of 53 bits, and the      *)
(* arithmetic rounds as IEEE 754 does.                                      *)
(***************************************************************************)
EXTENDS Integers, Sequences, FiniteSets, TLC

\* Bounds of the model.
MaxQueryChars == 2
MaxDataChars == 2
MaxItemChars == 1
MaxRankChars == 1
MaxItems == 2
MaxFuncs == 2
MaxLongQueryChars == 3
MaxWordChars == 4

\* 'a', 'b' (one byte each in UTF-8) and U+00E9 (two bytes).
Alphabet == {97, 98, 233}

StrUpTo(n) == UNION {[1..k -> Alphabet] : k \in 0..n}

Queries == StrUpTo(MaxQueryChars)

Datas == StrUpTo(MaxDataChars)

\* The values registered with a search engine.
Items == StrUpTo(MaxItemChars)

\* The queries a search engine built step by step is ranked against.
RankQueries == StrUpTo(MaxRankChars)

\* Option::None of chars().nth(); it differs from every scalar value.
\* Longer queries of one-byte symbols, for a query that grows by several
\* symbols and is then shortened.
LongQueries == {q \in StrUpTo(MaxLongQueryChars) : \A i \in 1..Len(q) : q[i] < 128}

NoChar == -1

\* One-byte strings over three letters, for the two argument orders of
\* weighted_levenshtein_similarity.
Letters == {97, 98, 99}

Words == UNION {[1..k -> Letters] : k \in 0..MaxWordChars}

\* The originals whose backtrace is followed cell by cell.
Originals == StrUpTo(MaxLongQueryChars)

---------------------------------------------------------------------------
\* Strings

\* char::len_utf8
len_utf8(c) == IF c < 128 THEN 1 ELSE IF c < 2048 THEN 2 ELSE IF c < 65536 THEN 3 ELSE 4

RECURSIVE str_len(_)
\* str::len: the number of bytes of the UTF-8 encoding
str_len(s) == IF s = <<>> THEN 0 ELSE len_utf8(Head(s)) + str_len(Tail(s))

\* s.chars().nth(n), n counted from 0
chars_nth(s, n) == IF n >= 0 /\ n < Len(s) THEN s[n + 1] ELSE NoChar

\* std::cmp::min
Min(x, y) == IF x <= y THEN x ELSE y

\* usize::max
Max(x, y) == IF x >= y THEN x ELSE y

---------------------------------------------------------------------------
\* f64 arithmetic (IEEE 754 binary64, round to nearest, ties to even)
\*
\* A finite f64 is [s, e, hi, lo]: the value (-1)^s * (hi * 2^30 + lo) * 2^(e - 52)
\* with 2^52 <= hi * 2^30 + lo < 2^53, or Zero.  The 53 bits of the significand
\* are kept in two parts because the integers of the checker have 32 bits.
\* Infinities, NaN, subnormal numbers and -0.0 do not arise from the scoring
\* functions and are not represented.

Zero == [s |-> 0, e |-> 0, hi |-> 0, lo |-> 0]

\* A magnitude [hi, lo] stands for hi * 2^30 + lo, lo < 2^30.
Wide(hi, lo) == [hi |-> hi, lo |-> lo]

\* w * 2^k for 0 <= k < 30
Shl(w, k) == Wide(w.hi * 2^k + w.lo \div 2^(30 - k), (w.lo % 2^(30 - k)) * 2^k)

\* w / 2^k, the bits shifted out or-ed into the lowest bit (the sticky bit)
ShrSticky(w, k) ==
    LET r == IF k = 0 THEN [w |-> w, lost |-> FALSE]
             ELSE IF k < 30
             THEN [w |-> Wide(w.hi \div 2^k, w.lo \div 2^k + (w.hi % 2^k) * 2^(30 - k)),
                   lost |-> w.lo % 2^k # 0]
             ELSE IF k < 60
             THEN [w |-> Wide(0, w.hi \div 2^(k - 30)),
                   lost |-> w.lo # 0 \/ w.hi % 2^(k - 30) # 0]
             ELSE [w |-> Wide(0, 0), lost |-> w.lo # 0 \/ w.hi # 0]
    IN  IF r.lost /\ r.w.lo % 2 = 0 THEN Wide(r.w.hi, r.w.lo + 1) ELSE r.w

AddW(x, y) ==
    LET lo == x.lo + y.lo
    IN  IF lo >= 2^30 THEN Wide(x.hi + y.hi + 1, lo - 2^30) ELSE Wide(x.hi + y.hi, lo)

\* x - y for x >= y
SubW(x, y) ==
    IF x.lo >= y.lo THEN Wide(x.hi - y.hi, x.lo - y.lo)
    ELSE Wide(x.hi - y.hi - 1, x.lo + 2^30 - y.lo)

LessW(x, y) == x.hi < y.hi \/ (x.hi = y.hi /\ x.lo < y.lo)

RECURSIVE RoundPack(_, _, _)
\* The f64 nearest to (-1)^s * w * 2^(e - 55): w is brought to 56 bits (the 53
\* of the significand, then guard, round and sticky) and rounded, ties to even.
RoundPack(s, e, w) ==
    IF w.hi = 0 /\ w.lo = 0 THEN Zero
    ELSE IF w.hi >= 2^26 THEN RoundPack(s, e + 1, ShrSticky(w, 1))
    ELSE IF w.hi = 0 /\ w.lo < 2^26 THEN RoundPack(s, e - 30, Wide(w.lo, 0))
    ELSE IF w.hi < 2^25 THEN RoundPack(s, e - 1, Shl(w, 1))
    ELSE LET rest == w.lo % 8
             m == Wide(w.hi \div 8, w.lo \div 8 + (w.hi % 8) * 2^27)
             up == rest > 4 \/ (rest = 4 /\ m.lo % 2 = 1)
             r == IF up THEN AddW(m, Wide(0, 1)) ELSE m
         IN  IF r.hi = 2^23 THEN [s |-> s, e |-> e + 1, hi |-> 2^22, lo |-> 0]
             ELSE [s |-> s, e |-> e, hi |-> r.hi, lo |-> r.lo]

\* The position of the highest bit of m, 0 < m < 2^23
Log2(m) == CHOOSE e \in 0..22 : 2^e <= m /\ m < 2^(e + 1)

\* "n as f64" for an integer n of fewer than 26 bits.  A usize is never
\* negative: a negative n is a difference of usize values that underflowed.
as_f64(n) ==
    LET m == IF n < 0 THEN -n ELSE n
    IN  IF m = 0 THEN Zero
        ELSE IF m < 2^23
        THEN [s |-> IF n < 0 THEN 1 ELSE 0, e |-> Log2(m), hi |-> m * 2^(22 - Log2(m)), lo |-> 0]
        ELSE RoundPack(IF n < 0 THEN 1 ELSE 0, 55, Wide(0, m))

\* |x| < |y|
MagLess(x, y) ==
    IF y = Zero THEN FALSE
    ELSE IF x = Zero THEN TRUE
    ELSE x.e < y.e \/ (x.e = y.e /\ LessW(x, y))

\* x < y
F64Less(x, y) ==
    IF x.s # y.s THEN x.s = 1
    ELSE IF x.s = 0 THEN MagLess(x, y) ELSE MagLess(y, x)

\* x == y: the representation is unique
F64Eq(x, y) == x = y

\* x <= y
F64Leq(x, y) == ~F64Less(y, x)

\* -x
F64Neg(x) == IF x = Zero THEN Zero ELSE [x EXCEPT !.s = 1 - @]

\* x + y
F64Add(x, y) ==
    IF x = Zero THEN y
    ELSE IF y = Zero THEN x
    ELSE LET big == IF MagLess(x, y) THEN y ELSE x
             small == IF MagLess(x, y) THEN x ELSE y
             wb == Shl(Wide(big.hi, big.lo), 3)
             ws == ShrSticky(Shl(Wide(small.hi, small.lo), 3), big.e - small.e)
         IN  IF big.s = small.s THEN RoundPack(big.s, big.e, AddW(wb, ws))
             ELSE RoundPack(big.s, big.e, SubW(wb, ws))

\* x - y
F64Sub(x, y) == F64Add(x, F64Neg(y))

\* x / y for a divisor y that is a whole number below 2^12 (the code divides
\* by "max_distance as f64" only): the quotient of the significand by the
\* whole number, 56 bits of it, the remainder as the sticky bit.
F64Div(x, y) ==
    IF x = Zero THEN Zero
    ELSE LET n == y.hi \div 2^(22 - y.e)
             bits == y.e + 1
             qh == x.hi \div n
             t1 == (x.hi % n) * 2^15 + x.lo \div 2^15
             t0 == (t1 % n) * 2^15 + (x.lo % 2^15)
             q == Wide(qh, (t1 \div n) * 2^15 + t0 \div n)
             f == (t0 % n) * 2^(3 + bits)
             w == AddW(Shl(q, 3 + bits), Wide(0, f \div n))
         IN  RoundPack((x.s + y.s) % 2, x.e - bits,
                       IF f % n # 0 /\ w.lo % 2 = 0 THEN Wide(w.hi, w.lo + 1) ELSE w)

\* The significand in five parts of 13 bits, the lowest first
Parts(x) ==
    <<x.lo % 2^13, (x.lo \div 2^13) % 2^13, x.lo \div 2^26 + (x.hi % 2^9) * 2^4,
      (x.hi \div 2^9) % 2^13, x.hi \div 2^22>>

RECURSIVE Carry(_, _, _)
\* The parts of 13 bits of the number whose parts p may exceed 13 bits
Carry(p, k, c) ==
    IF k > Len(p) THEN <<>>
    ELSE <<(p[k] + c) % 2^13>> \o Carry(p, k + 1, (p[k] + c) \div 2^13)

\* The sum of the products a[i] * b[j] with i + j = k + 2
Conv(a, b, k) ==
    LET term(i) == IF k + 2 - i \in 1..5 THEN a[i] * b[k + 2 - i] ELSE 0
    IN  term(1) + term(2) + term(3) + term(4) + term(5)

\* x * y.  By a power of two the product is exact and only the exponent
\* changes; otherwise the product of the significands is taken in parts of
\* 13 bits, its upper 56 bits rounded, the lower 50 bits as the sticky bit.
F64Mul(x, y) ==
    IF x = Zero \/ y = Zero THEN Zero
    ELSE IF y.hi = 2^22 /\ y.lo = 0
    THEN [s |-> (x.s + y.s) % 2, e |-> x.e + y.e, hi |-> x.hi, lo |-> x.lo]
    ELSE LET a == Parts(x)
             b == Parts(y)
             r == Carry([k \in 1..9 |-> Conv(a, b, k - 1)], 1, 0)
             lo == r[4] \div 2^11 + r[5] * 2^2 + r[6] * 2^15 + (r[7] % 4) * 2^28
             hi == r[7] \div 4 + r[8] * 2^11 + r[9] * 2^24
             lost == r[1] # 0 \/ r[2] # 0 \/ r[3] # 0 \/ r[4] % 2^11 # 0
         IN  RoundPack((x.s + y.s) % 2, x.e + y.e + 1,
                       IF lost /\ lo % 2 = 0 THEN Wide(hi, lo + 1) ELSE Wide(hi, lo))

\* f64::max (no NaN arises from the scoring functions modelled)
F64Max(x, y) == IF F64Less(x, y) THEN y ELSE x

\* "n as f64 / d as f64"
F64(n, d) == F64Div(as_f64(n), as_f64(d))

\* f64::ln_1p of a run length: the values of the log1p of the C library
ln_1p(len) ==
    <<
      [s |-> 0, e |-> -1, hi |-> 5814539, lo |-> 1056586223],
      [s |-> 0, e |-> 0, hi |-> 4607913, lo |-> 984417034],
      [s |-> 0, e |-> 0, hi |-> 5814539, lo |-> 1056586223],
      [s |-> 0, e |-> 0, hi |-> 6750471, lo |-> 938315059],
      [s |-> 0, e |-> 0, hi |-> 7515183, lo |-> 975839234],
      [s |-> 0, e |-> 0, hi |-> 8161738, lo |-> 775051863],
      [s |-> 0, e |-> 1, hi |-> 4360904, lo |-> 1060875123],
      [s |-> 0, e |-> 1, hi |-> 4607913, lo |-> 984417035],
      [s |-> 0, e |-> 1, hi |-> 4828870, lo |-> 1001739542],
      [s |-> 0, e |-> 1, hi |-> 5028750, lo |-> 931084108],
      [s |-> 0, e |-> 1, hi |-> 5211226, lo |-> 1020501629],
      [s |-> 0, e |-> 1, hi |-> 5379088, lo |-> 724667473],
      [s |-> 0, e |-> 1, hi |-> 5534504, lo |-> 383237032],
      [s |-> 0, e |-> 1, hi |-> 5679192, lo |-> 961366047],
      [s |-> 0, e |-> 1, hi |-> 5814539, lo |-> 1056586223],
      [s |-> 0, e |-> 1, hi |-> 5941679, lo |-> 33193850]
    >>[len]

---------------------------------------------------------------------------
\* levenshtein/base.rs

\* The cell matrix[i][j] of a Vec<Vec<usize>>, i and j counted from 0.
Cell(m, i, j) == m[i + 1][j + 1]

RECURSIVE fill_row_nth_j(_, _, _, _, _)
\* The inner loop with b.chars().nth(j) in place of b.chars().nth(j - 1).
fill_row_nth_j(row, prev, ch, b, len_b) ==
    LET j == Len(row) IN
    IF j > len_b THEN row
    ELSE LET cost == IF ch = chars_nth(b, j) THEN 0 ELSE 1
             cell == Min(prev[j + 1] + 1, Min(row[j] + 1, prev[j] + cost))
         IN  fill_row_nth_j(Append(row, cell), prev, ch, b, len_b)

RECURSIVE fill_row(_, _, _, _, _)
\* The inner loop "for j in 1..=len_b" on row i: row holds the cells
\* 0..j-1 of row i, prev is row i-1 and ch is a.chars().nth(i - 1).
fill_row(row, prev, ch, b, len_b) ==
    LET j == Len(row) IN
    IF j > len_b THEN row
    ELSE LET cost == IF ch = chars_nth(b, j - 1) THEN 0 ELSE 1
             cell == Min(prev[j + 1] + 1, Min(row[j] + 1, prev[j] + cost))
         IN  fill_row(Append(row, cell), prev, ch, b, len_b)

RECURSIVE matrix_rows(_, _, _, _)
\* The outer loop "for i in 1..=len_a"; column 0 of row i was set to i.
matrix_rows(m, a, b, len_a) ==
    LET i == Len(m) IN
    IF i > len_a THEN m
    ELSE matrix_rows(Append(m, fill_row(<<i>>, m[i], chars_nth(a, i - 1), b, str_len(b))),
                     a, b, len_a)

levenshtein_matrix(a, b) ==
    matrix_rows(<<[j \in 1..(str_len(b) + 1) |-> j - 1]>>, a, b, str_len(a))

levenshtein_distance(a, b) == Cell(levenshtein_matrix(a, b), str_len(a), str_len(b))

\* distance / max_distance in place of (max_distance - distance) / max_distance.
levenshtein_similarity_of_distance(a, b) ==
    LET distance == levenshtein_distance(a, b)
        max_distance == Max(str_len(a), str_len(b))
    IN  IF max_distance = 0 THEN Zero ELSE F64(distance, max_distance)

\* The shorter length in place of the longer one.
levenshtein_similarity_of_min(a, b) ==
    LET distance == levenshtein_distance(a, b)
        max_distance == Min(str_len(a), str_len(b))
    IN  IF max_distance = 0 THEN Zero ELSE F64(max_distance - distance, max_distance)

\* A negative numerator stands for the underflow of the usize subtraction.
levenshtein_similarity(a, b) ==
    LET distance == levenshtein_distance(a, b)
        max_distance == Max(str_len(a), str_len(b))
    IN  IF max_distance = 0 THEN Zero ELSE F64(max_distance - distance, max_distance)

RECURSIVE del_run(_, _, _)
\* "while i > 0 && matrix[i][j] == matrix[i - 1][j] + 1 { i -= 1 }": the i reached
del_run(m, i, j) ==
    IF i > 0 /\ Cell(m, i, j) = Cell(m, i - 1, j) + 1 THEN del_run(m, i - 1, j) ELSE i

RECURSIVE ins_run(_, _, _)
\* "while j > 0 && matrix[i][j] == matrix[i][j - 1] + 1 { j -= 1 }": the j reached
ins_run(m, i, j) ==
    IF j > 0 /\ Cell(m, i, j) = Cell(m, i, j - 1) + 1 THEN ins_run(m, i, j - 1) ELSE j

RECURSIVE backtrace(_, _, _, _, _, _)
\* The loop "while i > 0 && j > 0" of edit_operations with the two pushes
\* after it; ops is in push order.  When no branch is taken i and j stay
\* as they are and the loop never ends: hang.
backtrace(m, original, target, i, j, ops) ==
    IF i > 0 /\ j > 0
    THEN LET current == Cell(m, i, j)
             deletion == Cell(m, i - 1, j) + 1
             insertion == Cell(m, i, j - 1) + 1
             same == chars_nth(original, i - 1) = chars_nth(target, j - 1)
             substitution == Cell(m, i - 1, j - 1) + (IF same THEN 0 ELSE 1)
         IN  IF current = substitution
             THEN backtrace(m, original, target, i - 1, j - 1,
                            IF same THEN ops ELSE Append(ops, <<"Substitute", 1, 1>>))
             ELSE IF current = deletion
             THEN LET i2 == del_run(m, i, j) IN
                  backtrace(m, original, target, i2, j, Append(ops, <<"Delete", i - i2>>))
             ELSE IF current = insertion
             THEN LET j2 == ins_run(m, i, j) IN
                  backtrace(m, original, target, i, j2, Append(ops, <<"Insert", j - j2>>))
             ELSE [ops |-> ops, hang |-> TRUE]
    ELSE LET ops1 == IF i > 0 THEN Append(ops, <<"Delete", i>>) ELSE ops
             ops2 == IF j > 0 THEN Append(ops1, <<"Insert", j>>) ELSE ops1
         IN  [ops |-> ops2, hang |-> FALSE]

Reverse(s) == [k \in 1..Len(s) |-> s[Len(s) + 1 - k]]

\* edit_operations before its loop: "let mut operations, i, j"; at is the
\* loop the control is in, count is del_count / ins_count.
backtrace_start(original, target) ==
    [i |-> str_len(original), j |-> str_len(target), ops |-> <<>>, at |-> "while", count |-> 0]

\* after_loop without "if j > 0 { push(Insert(j)) }".
after_loop_delete_only(s) ==
    LET ops1 == IF s.i > 0 THEN Append(s.ops, <<"Delete", s.i>>) ELSE s.ops
    IN  [s EXCEPT !.ops = Reverse(ops1), !.at = "done"]

\* The two pushes after the loop and operations.reverse()
after_loop(s) ==
    LET ops1 == IF s.i > 0 THEN Append(s.ops, <<"Delete", s.i>>) ELSE s.ops
        ops2 == IF s.j > 0 THEN Append(ops1, <<"Insert", s.j>>) ELSE ops1
    IN  [s EXCEPT !.ops = Reverse(ops2), !.at = "done"]

\* One evaluation of a loop condition of edit_operations with the body it
\* guards: the outer "while i > 0 && j > 0" up to the branch it takes, or one
\* round of the loop that counts deletions or insertions.  When the outer
\* loop takes no branch nothing changes.
backtrace_step(m, original, target, s) ==
    IF s.at = "while"
    THEN IF s.i > 0 /\ s.j > 0
         THEN LET current == Cell(m, s.i, s.j)
                  deletion == Cell(m, s.i - 1, s.j) + 1
                  insertion == Cell(m, s.i, s.j - 1) + 1
                  same == chars_nth(original, s.i - 1) = chars_nth(target, s.j - 1)
                  substitution == Cell(m, s.i - 1, s.j - 1) + (IF same THEN 0 ELSE 1)
              IN  IF current = substitution
                  THEN [s EXCEPT !.i = @ - 1, !.j = @ - 1,
                                 !.ops = IF same THEN @ ELSE Append(@, <<"Substitute", 1, 1>>)]
                  ELSE IF current = deletion THEN [s EXCEPT !.at = "while_delete", !.count = 0]
                  ELSE IF current = insertion THEN [s EXCEPT !.at = "while_insert", !.count = 0]
                  ELSE s
         ELSE after_loop(s)
    ELSE IF s.at = "while_delete"
    THEN IF s.i > 0 /\ Cell(m, s.i, s.j) = Cell(m, s.i - 1, s.j) + 1
         THEN [s EXCEPT !.count = @ + 1, !.i = @ - 1]
         ELSE [s EXCEPT !.ops = Append(@, <<"Delete", s.count>>), !.at = "while", !.count = 0]
    ELSE IF s.at = "while_insert"
    THEN IF s.j > 0 /\ Cell(m, s.i, s.j) = Cell(m, s.i, s.j - 1) + 1
         THEN [s EXCEPT !.count = @ + 1, !.j = @ - 1]
         ELSE [s EXCEPT !.ops = Append(@, <<"Insert", s.count>>), !.at = "while", !.count = 0]
    ELSE s

edit_operations(m, original, target) ==
    LET r == backtrace(m, original, target, str_len(original), str_len(target), <<>>)
    IN  [ops |-> Reverse(r.ops), hang |-> r.hang]

RECURSIVE add_costs(_, _)
\* "for op in ops { match op ... distance += ... }": the f64 additions in
\* the order of the operations
add_costs(ops, distance) ==
    IF ops = <<>> THEN distance
    ELSE LET op == Head(ops)
         IN  add_costs(Tail(ops),
                       IF op[1] = "Substitute"
                       THEN F64Add(F64Add(distance, ln_1p(op[2])), ln_1p(op[3]))
                       ELSE IF op[1] = "None" THEN distance
                       ELSE F64Add(distance, ln_1p(op[2])))

\* The sum with a Substitute counted once.
weighted_cost_once(ops) ==
    add_costs([k \in 1..Len(ops) |->
                  IF ops[k][1] = "Substitute" THEN <<"Delete", ops[k][2]>> ELSE ops[k]], Zero)

\* "let mut distance = 0.;" and the loop over the operations
weighted_cost(ops) == add_costs(ops, Zero)

\* [score, hang]: hang when edit_operations never returns
weighted_edit_similarity(m, a, b) ==
    LET r == edit_operations(m, a, b)
        max_distance == Max(str_len(a), str_len(b))
    IN  [score |-> IF r.hang \/ max_distance = 0 THEN Zero
                   ELSE F64Div(F64Sub(as_f64(max_distance), weighted_cost(r.ops)),
                               as_f64(max_distance)),
         hang |-> r.hang]

weighted_levenshtein_similarity(a, b) ==
    weighted_edit_similarity(levenshtein_matrix(a, b), a, b)

---------------------------------------------------------------------------
\* levenshtein/incremental.rs

\* IncrementalLevenshtein::new
IncNew(q, d) == [query |-> q, data |-> d, matrix |-> levenshtein_matrix(q, d)]

RECURSIVE query_similarity(_, _)
query_similarity(old_query, new_query) ==
    IF old_query = <<>> \/ new_query = <<>> THEN 0
    ELSE IF Head(old_query) # Head(new_query) THEN 0
    ELSE 1 + query_similarity(Tail(old_query), Tail(new_query))

\* The push / pop loops with one row less popped.
resize_pops_less(m, old_len, new_len, len_b) ==
    IF new_len > old_len
    THEN m \o [r \in 1..(new_len - old_len) |-> [j \in 1..(len_b + 1) |-> 0]]
    ELSE SubSeq(m, 1, Len(m) - Min(Len(m), Max(0, old_len - new_len - 1)))

\* The push / pop loops of update.
resize(m, old_len, new_len, len_b) ==
    IF new_len > old_len
    THEN m \o [r \in 1..(new_len - old_len) |-> [j \in 1..(len_b + 1) |-> 0]]
    ELSE SubSeq(m, 1, Len(m) - Min(Len(m), old_len - new_len))

RECURSIVE update_rows(_, _, _, _, _)
\* "for i in (query_similarity + 1)..=len_a": row i is recomputed in place
\* from row i-1 and from its own column 0.
update_rows(m, i, q, b, len_a) ==
    IF i > len_a THEN m
    ELSE update_rows([m EXCEPT ![i + 1] =
                          fill_row(<<m[i + 1][1]>>, m[i], chars_nth(q, i - 1), b, str_len(b))],
                     i + 1, q, b, len_a)

\* update without "self.query = new_query.to_string()".
update_keeps_query(self, new_query) ==
    LET k == query_similarity(self.query, new_query)
        len_a == str_len(new_query)
        len_b == str_len(self.data)
        resized == resize(self.matrix, str_len(self.query), len_a, len_b)
        ramp == [resized EXCEPT ![len_a + 1][1] = len_a]
    IN  [query |-> self.query, data |-> self.data,
         matrix |-> update_rows(ramp, k + 1, new_query, self.data, len_a)]

\* IncrementalLevenshtein::update
update(self, new_query) ==
    LET k == query_similarity(self.query, new_query)
        len_a == str_len(new_query)
        len_b == str_len(self.data)
        resized == resize(self.matrix, str_len(self.query), len_a, len_b)
        ramp == [resized EXCEPT ![len_a + 1][1] = len_a]
    IN  [query |-> new_query, data |-> self.data,
         matrix |-> update_rows(ramp, k + 1, new_query, self.data, len_a)]

\* similarity with the shorter length in place of the longer one.
inc_similarity_of_min(self, new_query) ==
    LET s == update(self, new_query)
        distance == Cell(s.matrix, str_len(s.query), str_len(s.data))
        max_distance == Min(str_len(s.query), str_len(s.data))
    IN  [self |-> s,
         score |-> IF max_distance = 0 THEN Zero
                   ELSE F64(max_distance - distance, max_distance),
         hang |-> FALSE]

\* similarity that scores the stored matrix before it updates it.
inc_similarity_then_update(self, new_query) ==
    LET s == update(self, new_query)
        distance == Cell(self.matrix, str_len(self.query), str_len(self.data))
        max_distance == Max(str_len(self.query), str_len(self.data))
    IN  [self |-> s,
         score |-> IF max_distance = 0 THEN Zero
                   ELSE F64(max_distance - distance, max_distance),
         hang |-> FALSE]

\* similarity with 1.0 for two empty strings.
inc_similarity_empty_one(self, new_query) ==
    LET s == update(self, new_query)
        distance == Cell(s.matrix, str_len(s.query), str_len(s.data))
        max_distance == Max(str_len(s.query), str_len(s.data))
    IN  [self |-> s,
         score |-> IF max_distance = 0 THEN F64(1, 1)
                   ELSE F64(max_distance - distance, max_distance),
         hang |-> FALSE]

\* IncrementalLevenshtein::similarity: [self, score, hang]
inc_similarity(self, new_query) ==
    LET s == update(self, new_query)
        distance == Cell(s.matrix, str_len(s.query), str_len(s.data))
        max_distance == Max(str_len(s.query), str_len(s.data))
    IN  [self |-> s,
         score |-> IF max_distance = 0 THEN Zero
                   ELSE F64(max_distance - distance, max_distance),
         hang |-> FALSE]

\* IncrementalLevenshtein::weighted_similarity: [self, score, hang]
inc_weighted_similarity(self, new_query) ==
    LET s == update(self, new_query)
        r == weighted_edit_similarity(s.matrix, s.query, s.data)
    IN  [self |-> s, score |-> r.score, hang |-> r.hang]

---------------------------------------------------------------------------
\* similarity.rs

\* The scoring closures of the tests and the crate docs:
\*   "wls"           |v, q| weighted_levenshtein_similarity(q, v)
\*   "inc_weighted"  |s, _, q| s.weighted_similarity(q), on the state
\*                   |v| IncrementalLevenshtein::new("", v)
Half == F64(1, 2)

One == F64(1, 1)

\* StatelessCombination { weight, function, inner }: one link of the chain
Stateless(w, f) == [kind |-> "stateless", weight |-> w, function |-> f]

\* StatefulCombination { weight, function, state_func, inner }
Stateful(w, f) == [kind |-> "stateful", weight |-> w, function |-> f]

\* The (weight, function) entries an engine is configured with.
Entries == {Stateless(One, "wls"), Stateless(Half, "wls"), Stateful(One, "inc_weighted")}

\* (self.function)(value, query) of a stateless link: [score, hang]
apply_function(f, value, q) == weighted_levenshtein_similarity(q, value)

\* (self.state_func)(value) of a stateful link
apply_state_func(f, value) == IncNew(<<>>, value)

\* (self.function)(state, value, query) of a stateful link: [self, score, hang]
apply_stateful(f, state, value, q) == inc_weighted_similarity(state, q)

RECURSIVE sim_state(_, _)
\* Similarity::state: the nested tuple (State, Inner::State) as a sequence,
\* the outermost stateful link first; () is the empty chain.
sim_state(chain, value) ==
    IF chain = <<>> THEN <<>>
    ELSE IF Head(chain).kind = "stateful"
    THEN <<apply_state_func(Head(chain).function, value)>> \o sim_state(Tail(chain), value)
    ELSE sim_state(Tail(chain), value)

\* A unit similarity that is the identity of max: it scores below every score.
unit_similarity_below == [score |-> F64(-1000, 1), state |-> <<>>, hang |-> FALSE]

\* Similarity::similarity of (): 0.
unit_similarity == [score |-> Zero, state |-> <<>>, hang |-> FALSE]

RECURSIVE sim_similarity_weight_outside(_, _, _, _)
\* A chain whose links weight the maximum instead of their own score.
sim_similarity_weight_outside(chain, state, value, q) ==
    IF chain = <<>> THEN unit_similarity
    ELSE LET link == Head(chain) IN
         IF link.kind = "stateful"
         THEN LET r == apply_stateful(link.function, Head(state), value, q)
                  inner == sim_similarity_weight_outside(Tail(chain), Tail(state), value, q)
              IN  [score |-> F64Mul(F64Max(r.score, inner.score), link.weight),
                   state |-> <<r.self>> \o inner.state,
                   hang |-> r.hang \/ inner.hang]
         ELSE LET r == apply_function(link.function, value, q)
                  inner == sim_similarity_weight_outside(Tail(chain), state, value, q)
              IN  [score |-> F64Mul(F64Max(r.score, inner.score), link.weight),
                   state |-> inner.state,
                   hang |-> r.hang \/ inner.hang]

RECURSIVE sim_similarity(_, _, _, _)
\* Similarity::similarity of a chain: [score, state, hang]
sim_similarity(chain, state, value, q) ==
    IF chain = <<>> THEN unit_similarity
    ELSE LET link == Head(chain) IN
         IF link.kind = "stateful"
         THEN LET r == apply_stateful(link.function, Head(state), value, q)
                  similarity == F64Mul(r.score, link.weight)
                  inner == sim_similarity(Tail(chain), Tail(state), value, q)
              IN  [score |-> F64Max(similarity, inner.score),
                   state |-> <<r.self>> \o inner.state,
                   hang |-> r.hang \/ inner.hang]
         ELSE LET r == apply_function(link.function, value, q)
                  similarity == F64Mul(r.score, link.weight)
                  inner == sim_similarity(Tail(chain), state, value, q)
              IN  [score |-> F64Max(similarity, inner.score),
                   state |-> inner.state,
                   hang |-> r.hang \/ inner.hang]

---------------------------------------------------------------------------
\* search_engine.rs

\* SearchEngine::new
engine_new == [values |-> <<>>, similarity |-> <<>>, mutable |-> FALSE]

\* add_value with the new pair put in front.
add_value_front(e, v) ==
    [e EXCEPT !.values = <<[state |-> sim_state(e.similarity, v), value |-> v]>> \o @]

\* add_value / with_value
add_value(e, v) ==
    [e EXCEPT !.values = Append(@, [state |-> sim_state(e.similarity, v), value |-> v])]

RECURSIVE add_values(_, _)
\* add_values / with_values
add_values(e, vs) == IF vs = <<>> THEN e ELSE add_values(add_value(e, Head(vs)), Tail(vs))

\* with / with_weight: the states stay, State = Inner::State
with_weight(e, w, f) == [e EXCEPT !.similarity = <<Stateless(w, f)>> \o @]

\* with_state / with_state_and_weight: every state is built anew
with_state_and_weight(e, w, f) ==
    LET similarity == <<Stateful(w, f)>> \o e.similarity IN
    [values |-> [i \in 1..Len(e.values) |->
                    [state |-> sim_state(similarity, e.values[i].value),
                     value |-> e.values[i].value]],
     similarity |-> similarity,
     mutable |-> TRUE]

\* with_weight or with_state_and_weight, as the kind of the entry asks
with_entry(e, entry) ==
    IF entry.kind = "stateful"
    THEN with_state_and_weight(e, entry.weight, entry.function)
    ELSE with_weight(e, entry.weight, entry.function)

\* The closure of ".map(|(state, value)| ...)" on every stored pair, in order.
score_all(e, q) ==
    [i \in 1..Len(e.values) |->
        sim_similarity(e.similarity, e.values[i].state, e.values[i].value, q)]

\* The comparator with its arguments exchanged: s.partial_cmp(v).
compare_exchanged(v, s) ==
    IF F64Less(s, v) THEN "Less" ELSE IF F64Less(v, s) THEN "Greater" ELSE "Equal"

\* |(_, v), (_, s)| v.partial_cmp(s).unwrap_or(Ordering::Equal)
compare(v, s) == IF F64Less(v, s) THEN "Less" ELSE IF F64Less(s, v) THEN "Greater" ELSE "Equal"

Perms(n) == {p \in [1..n -> 1..n] : \A i, j \in 1..n : p[i] = p[j] => i = j}

\* sort_unstable_by: every arrangement in which no element is Greater
\* than its successor; the order of Equal elements is not determined.
sort_unstable_by(pairs) ==
    {s \in {[i \in 1..Len(pairs) |-> pairs[p[i]]] : p \in Perms(Len(pairs))} :
        \A i \in 1..(Len(s) - 1) : compare(s[i].score, s[i + 1].score) # "Greater"}

\* A collection that stops one pair early.
collect_short(e, scored) ==
    [i \in 1..(Len(e.values) - 1) |-> [value |-> e.values[i].value, score |-> scored[i].score]]

\* The collected Vec<(&Value, f64)> before the sort.
collect(e, scored) ==
    [i \in 1..Len(e.values) |-> [value |-> e.values[i].value, score |-> scored[i].score]]

\* similarities (Mutable, Immutable) and into_similarities:
\* [engine, results, hang]; results is the set of the possible return values.
similarities(e, q) ==
    CHOOSE r \in
        {[engine |-> [e EXCEPT !.values =
                        [i \in 1..Len(e.values) |->
                            [e.values[i] EXCEPT !.state = scored[i].state]]],
          results |-> sort_unstable_by(collect(e, scored)),
          hang |-> \E i \in 1..Len(scored) : scored[i].hang] :
            scored \in {score_all(e, q) \o <<>>}} : TRUE

\* ".into_iter().map(|v| v.0).collect()" of search / into_search
drop_scores(r) == [i \in 1..Len(r) |-> r[i].value]

---------------------------------------------------------------------------
\* State

VARIABLES
    query, data, matrix,   \* the fields of one IncrementalLevenshtein
    new_query,             \* the argument of its last call
    again,                 \* the last call repeated the call before it:
                           \* the same method with the query then stored
    ret,                   \* the value its last call returned
    pc,                    \* its last call: "new", "similarity", "weighted_similarity",
                           \* a pure function called on its strings,
                           \* or "hung" when the call never returns
    engine,                \* a SearchEngine: values, similarity, mutable
    arg,                   \* the query of the engine's last ranking call
    result,                \* the (value, score) list that call computed
    found,                 \* the values search / into_search returned
    epc,                   \* the engine's last call; "hung" when it never returns
    regular,               \* a second engine over the same items: the stateless
                           \* engine of test_incremental
    regular_result,        \* its last similarities
    a, b,                  \* the arguments of a call of a pure function
    out,                   \* the function called and its value
    tasks                  \* a par_similarities call: its query, the engine it
                           \* started from, the items whose task has not run
                           \* yet and the scores of the others

incVars == <<query, data, matrix, new_query, again, ret, pc>>

engVars == <<engine, arg, result, found, epc>>

testVars == <<regular, regular_result>>

pureVars == <<a, b, out>>

parVars == <<tasks>>

vars == <<query, data, matrix, new_query, again, ret, pc, engine, arg, result, found, epc,
          regular, regular_result, a, b, out, tasks>>

\* The parts a specification does not use stay as constructed here.
IncIdle ==
    /\ query = <<>> /\ data = <<>> /\ matrix = levenshtein_matrix(<<>>, <<>>)
    /\ new_query = <<>> /\ again = FALSE
    /\ ret = Zero /\ pc = "new"

EngIdle ==
    /\ engine = engine_new /\ arg = <<>> /\ result = <<>> /\ found = <<>> /\ epc = "new"

TestIdle == regular = engine_new /\ regular_result = <<>>

PureIdle == a = <<>> /\ b = <<>> /\ out = [fn |-> "none", value |-> 0]

NoTasks == [name |-> "none", query |-> <<>>, before |-> engine_new, pending |-> {}, scored |-> <<>>]

ParIdle == tasks = NoTasks

---------------------------------------------------------------------------
\* One IncrementalLevenshtein

Self == [query |-> query, data |-> data, matrix |-> matrix]

IncInit ==
    \E q \in Queries, d \in Datas :
        /\ query = q
        /\ data = d
        /\ matrix = IncNew(q, d).matrix
        /\ new_query = q
        /\ again = FALSE
        /\ ret = Zero
        /\ pc = "new"

Init == IncInit /\ EngIdle /\ TestIdle /\ PureIdle /\ ParIdle

Return(r, name) ==
    /\ query' = r.self.query
    /\ data' = r.self.data
    /\ matrix' = r.self.matrix
    /\ ret' = r.score
    /\ pc' = IF r.hang THEN "hung" ELSE name
    /\ UNCHANGED <<engVars, testVars, pureVars, parVars>>

\* The call name(q) is noted.
Call(q, name) ==
    /\ new_query' = q
    /\ again' = (pc = name /\ q = query)

Similarity(q) ==
    /\ pc # "hung"
    /\ Call(q, "similarity")
    /\ \E r \in {inc_similarity(Self, q)} : Return(r, "similarity")

WeightedSimilarity(q) ==
    /\ pc # "hung"
    /\ Call(q, "weighted_similarity")
    /\ \E r \in {inc_weighted_similarity(Self, q)} : Return(r, "weighted_similarity")

Next ==
    \/ \E q \in Queries : Similarity(q)
    \/ \E q \in Queries : WeightedSimilarity(q)

Spec == Init /\ [][Next]_vars

\* Live typing: every new query is at most one symbol longer than the stored one.
TypeSimilarity(q) == Len(q) <= Len(query) + 1 /\ Similarity(q)

TypeWeightedSimilarity(q) == Len(q) <= Len(query) + 1 /\ WeightedSimilarity(q)

NextTyping ==
    \/ \E q \in Queries : TypeSimilarity(q)
    \/ \E q \in Queries : TypeWeightedSimilarity(q)

SpecTyping == Init /\ [][NextTyping]_vars

\* Longer queries: growing by several symbols, then shrinking.
InitLong ==
    /\ EngIdle /\ TestIdle /\ PureIdle /\ ParIdle
    /\ \E q \in LongQueries, d \in Datas :
        /\ query = q
        /\ data = d
        /\ matrix = IncNew(q, d).matrix
        /\ new_query = q
        /\ again = FALSE
        /\ ret = Zero
        /\ pc = "new"

NextLong ==
    \/ \E q \in LongQueries : Similarity(q)
    \/ \E q \in LongQueries : WeightedSimilarity(q)

SpecLong == InitLong /\ [][NextLong]_vars

\* The four scoring functions on one pair of strings: the two methods of the
\* object, and the two pure functions called on its query and its data.
ScoreSimilarity ==
    /\ pc # "hung"
    /\ ret' = levenshtein_similarity(query, data)
    /\ pc' = "levenshtein_similarity"
    /\ UNCHANGED <<query, data, matrix, new_query, again, engVars, testVars, pureVars, parVars>>

ScoreWeightedSimilarity ==
    /\ pc # "hung"
    /\ \E r \in {weighted_levenshtein_similarity(query, data)} :
           /\ ret' = r.score
           /\ pc' = IF r.hang THEN "hung" ELSE "weighted_levenshtein_similarity"
    /\ UNCHANGED <<query, data, matrix, new_query, again, engVars, testVars, pureVars, parVars>>

NextScores == Next \/ ScoreSimilarity \/ ScoreWeightedSimilarity

SpecScores == Init /\ [][NextScores]_vars

---------------------------------------------------------------------------
\* One SearchEngine, from SearchEngine::new() on

SeqUpTo(S, n) == UNION {[1..k -> S] : k \in 0..n}

InitEngine == IncIdle /\ EngIdle /\ TestIdle /\ PureIdle /\ ParIdle

\* The engine is there: no into_* call has consumed it, no call hangs.
Usable == epc \notin {"into_similarities", "into_search", "hung"}

\* A builder call; the borrowed result of an earlier ranking is gone by then.
Built(e) ==
    /\ engine' = e
    /\ arg' = <<>> /\ result' = <<>> /\ found' = <<>>
    /\ epc' = "built"
    /\ UNCHANGED <<incVars, testVars, pureVars, parVars>>

AddValue(v) ==
    /\ Usable
    /\ Len(engine.values) < MaxItems
    /\ Built(add_value(engine, v))

WithWeight(entry) ==
    /\ Usable
    /\ Len(engine.similarity) < MaxFuncs
    /\ entry.kind = "stateless"
    /\ Built(with_weight(engine, entry.weight, entry.function))

WithStateAndWeight(entry) ==
    /\ Usable
    /\ Len(engine.similarity) < MaxFuncs
    /\ entry.kind = "stateful"
    /\ Built(with_state_and_weight(engine, entry.weight, entry.function))

\* A ranking call named name with the query q; search calls drop the scores.
Rank(q, name) ==
    \E r \in {similarities(engine, q)} :
    /\ Usable
    /\ engine' = r.engine
    /\ arg' = q
    /\ IF r.hang
       THEN result' = <<>> /\ found' = <<>> /\ epc' = "hung"
       ELSE /\ result' \in r.results
            /\ found' = IF name \in {"search", "into_search"} THEN drop_scores(result') ELSE <<>>
            /\ epc' = name
    /\ UNCHANGED <<incVars, testVars, pureVars, parVars>>

Similarities(q) == Rank(q, "similarities")

Search(q) == Rank(q, "search")

IntoSimilarities(q) == Rank(q, "into_similarities")

IntoSearch(q) == Rank(q, "into_search")

NextEngine ==
    \/ \E v \in Items : AddValue(v)
    \/ \E entry \in Entries : WithWeight(entry)
    \/ \E entry \in Entries : WithStateAndWeight(entry)
    \/ \E q \in RankQueries : Similarities(q)
    \/ \E q \in RankQueries : Search(q)
    \/ \E q \in RankQueries : IntoSimilarities(q)
    \/ \E q \in RankQueries : IntoSearch(q)

SpecEngine == InitEngine /\ [][NextEngine]_vars

---------------------------------------------------------------------------
\* test_incremental: a stateless and a stateful engine over the same items

InitTest ==
    /\ IncIdle /\ PureIdle /\ ParIdle
    /\ \E vs \in SeqUpTo(Items, MaxItems) :
        /\ regular = with_weight(add_values(engine_new, vs), One, "wls")
        /\ engine = with_state_and_weight(add_values(engine_new, vs), One, "inc_weighted")
    /\ arg = <<>> /\ result = <<>> /\ found = <<>> /\ epc = "built"
    /\ regular_result = <<>>

\* One round of the loop: the same query to both engines.
TestQuery(q) ==
    \E r \in {similarities(regular, q)}, i \in {similarities(engine, q)} :
        /\ epc # "hung"
        /\ regular' = r.engine
        /\ regular_result' \in r.results
        /\ engine' = i.engine
        /\ arg' = q
        /\ IF i.hang THEN result' = <<>> /\ epc' = "hung"
                     ELSE result' \in i.results /\ epc' = "similarities"
        /\ found' = <<>>
        /\ UNCHANGED <<incVars, pureVars, parVars>>

NextTest == \E q \in Queries : TestQuery(q)

SpecTest == InitTest /\ [][NextTest]_vars

---------------------------------------------------------------------------
\* par_similarities on a stateful engine: one task for each stored pair,
\* run in any order

InitPar ==
    /\ IncIdle /\ TestIdle /\ PureIdle /\ ParIdle
    /\ \E vs \in SeqUpTo(Items, MaxItems) :
           engine = with_state_and_weight(add_values(engine_new, vs), One, "inc_weighted")
    /\ arg = <<>> /\ result = <<>> /\ found = <<>> /\ epc = "built"

\* The closure of par_iter_mut().map on the pair i where the state of the
\* first pair is used for every pair.
par_task_first(e, i, q) ==
    sim_similarity(e.similarity, e.values[1].state, e.values[i].value, q)

\* The closure of par_iter_mut().map(|(state, value)| ...) on the pair i.
par_task(e, i, q) ==
    sim_similarity(e.similarity, e.values[i].state, e.values[i].value, q)

\* A parallel ranking call named name: a task for every stored pair.  The
\* engine is there: no into_par_* call has consumed it and no call hangs.
ParRank(q, name) ==
    /\ epc \notin {"hung", "par_running", "into_par_similarities", "into_par_search"}
    /\ tasks' = [name |-> name, query |-> q, before |-> engine,
                 pending |-> 1..Len(engine.values),
                 scored |-> [i \in 1..Len(engine.values) |-> [score |-> Zero]]]
    /\ arg' = q /\ result' = <<>> /\ found' = <<>>
    /\ epc' = "par_running"
    /\ UNCHANGED <<engine, incVars, testVars, pureVars>>

ParSimilarities(q) == ParRank(q, "par_similarities")

ParSearch(q) == ParRank(q, "par_search")

IntoParSimilarities(q) == ParRank(q, "into_par_similarities")

IntoParSearch(q) == ParRank(q, "into_par_search")

\* The task of the pair i runs: it scores the pair and writes its state.
ParTask(i) ==
    /\ epc = "par_running"
    /\ i \in tasks.pending
    /\ \E r \in {par_task(engine, i, tasks.query)} :
           /\ engine' = [engine EXCEPT !.values[i].state = r.state]
           /\ tasks' = [tasks EXCEPT !.pending = @ \ {i}, !.scored[i] = [score |-> r.score]]
           /\ epc' = IF r.hang THEN "hung" ELSE "par_running"
    /\ UNCHANGED <<arg, result, found, incVars, testVars, pureVars>>

\* collect, sort and return once every task has run; the search calls
\* return the values without the scores.
ParCollect ==
    /\ epc = "par_running"
    /\ tasks.pending = {}
    /\ result' \in sort_unstable_by(collect(engine, tasks.scored))
    /\ found' = IF tasks.name \in {"par_search", "into_par_search"}
                THEN drop_scores(result') ELSE <<>>
    /\ epc' = tasks.name
    /\ UNCHANGED <<engine, arg, tasks, incVars, testVars, pureVars>>

NextPar ==
    \/ \E q \in Queries : ParSimilarities(q)
    \/ \E q \in RankQueries : ParSearch(q)
    \/ \E q \in RankQueries : IntoParSimilarities(q)
    \/ \E q \in RankQueries : IntoParSearch(q)
    \/ \E i \in 1..MaxItems : ParTask(i)
    \/ ParCollect

SpecPar == InitPar /\ [][NextPar]_vars

---------------------------------------------------------------------------
\* The pure functions of levenshtein/base.rs, called on two strings

InitPure ==
    /\ IncIdle /\ EngIdle /\ TestIdle /\ ParIdle
    /\ a \in Queries /\ b \in Datas
    /\ out = [fn |-> "none", value |-> 0]

Called(fn, value) ==
    /\ out' = [fn |-> fn, value |-> value]
    /\ UNCHANGED <<a, b, incVars, engVars, testVars, parVars>>

CallMatrix == Called("levenshtein_matrix", levenshtein_matrix(a, b))

CallDistance == Called("levenshtein_distance", levenshtein_distance(a, b))

CallSimilarity == Called("levenshtein_similarity", levenshtein_similarity(a, b))

\* The matrix is built from scratch, so the backtrace always returns.
CallWeightedSimilarity ==
    \E r \in {weighted_levenshtein_similarity(a, b)} :
        Called(IF r.hang THEN "hung" ELSE "weighted_levenshtein_similarity", r.score)

NextPure == CallMatrix \/ CallDistance \/ CallSimilarity \/ CallWeightedSimilarity

SpecPure == InitPure /\ [][NextPure]_vars

---------------------------------------------------------------------------
\* Two engines over the same items with the same two scoring functions, added
\* in the two possible orders, and asked the same queries.

InitOrder ==
    /\ IncIdle /\ PureIdle /\ ParIdle
    /\ \E vs \in SeqUpTo(Items, MaxItems), first \in Entries, second \in Entries :
        /\ engine = with_entry(with_entry(add_values(engine_new, vs), first), second)
        /\ regular = with_entry(with_entry(add_values(engine_new, vs), second), first)
    /\ arg = <<>> /\ result = <<>> /\ found = <<>> /\ epc = "built"
    /\ regular_result = <<>>

NextOrder == \E q \in Queries : TestQuery(q)

SpecOrder == InitOrder /\ [][NextOrder]_vars

---------------------------------------------------------------------------
\* edit_operations(&levenshtein_matrix(a, b), a, b), one loop round at a time

InitBacktrace ==
    /\ IncIdle /\ EngIdle /\ TestIdle /\ ParIdle
    /\ a \in Originals /\ b \in Datas
    /\ out = [fn |-> "none", value |-> 0]

CallEditOperations ==
    /\ out.fn = "none"
    /\ Called("edit_operations", backtrace_start(a, b))

BacktraceStep ==
    /\ out.fn = "edit_operations"
    /\ out.value.at # "done"
    /\ Called("edit_operations", backtrace_step(levenshtein_matrix(a, b), a, b, out.value))

NextBacktrace == CallEditOperations \/ BacktraceStep

SpecBacktrace == InitBacktrace /\ [][NextBacktrace]_vars

\* The rounds compute what the function computes.
BacktraceAsEditOperations ==
    (out.fn = "edit_operations" /\ out.value.at = "done") =>
        out.value.ops = edit_operations(levenshtein_matrix(a, b), a, b).ops

---------------------------------------------------------------------------
\* weighted_levenshtein_similarity on two words

InitWords ==
    /\ IncIdle /\ EngIdle /\ TestIdle /\ ParIdle
    /\ a \in Words /\ b \in Words
    /\ out = [fn |-> "none", value |-> 0]

NextWords == CallWeightedSimilarity

SpecWords == InitWords /\ [][NextWords]_vars

---------------------------------------------------------------------------
\* Properties of one IncrementalLevenshtein

\* C1: every call similarity(q) returns exactly levenshtein_similarity(q, data)
\* computed from scratch, whatever the queries before it were.
C1_SimilarityIsFromScratch ==
    pc = "similarity" => F64Eq(ret, levenshtein_similarity(query, data))

\* C3: in every reachable state the stored matrix equals
\* levenshtein_matrix(stored query, data), column 0 of every row included.
C3_MatrixIsFromScratch == matrix = levenshtein_matrix(query, data)

\* C8: when every new query is at most one symbol longer than the stored one,
\* each similarity(q) equals levenshtein_similarity(q, data) and the stored
\* matrix equals levenshtein_matrix(q, data).
C8_TypingIsFromScratch ==
    /\ pc = "similarity" => F64Eq(ret, levenshtein_similarity(query, data))
    /\ \A i \in 0..str_len(query), j \in 0..str_len(data) :
           Cell(matrix, i, j) = Cell(levenshtein_matrix(query, data), i, j)

\* C9: an update to a query that shares no leading symbol with the stored one
\* (k = 0) leaves the matrix equal to levenshtein_matrix(new query, data).
C9_NoPrefixIsFullRecomputation ==
    [][query_similarity(query, query') = 0 => matrix' = levenshtein_matrix(query', data')]_vars

\* C15: when both strings are empty, levenshtein_similarity,
\* weighted_levenshtein_similarity, IncrementalLevenshtein::similarity and
\* IncrementalLevenshtein::weighted_similarity return 0.0, and each returns.
C15_EmptyStringsScoreZero ==
    (query = <<>> /\ data = <<>>) =>
        /\ pc # "hung"
        /\ pc \in {"levenshtein_similarity", "weighted_levenshtein_similarity",
                   "similarity", "weighted_similarity"} =>
               ret = Zero

C15_Witness ==
    /\ query = <<>> /\ data = <<>>
    /\ pc = "weighted_similarity"
    /\ ret = Zero
    /\ matrix = <<<<0>>>>

\* C20: an update to a query that shares a leading prefix of k symbols with
\* the stored query leaves the rows 0..k of the matrix as they were, and the
\* cells of the rows k+1..new_len in the columns 1..len(data) are recomputed
\* from their neighbours.
C20_UpdateKeepsPrefixRows ==
    [][LET k == query_similarity(query, query')
           len_a == str_len(query')
           len_b == str_len(data')
       IN  /\ Len(matrix') = len_a + 1
           /\ \A i \in 0..k : matrix'[i + 1] = matrix[i + 1]
           /\ \A i \in (k + 1)..len_a, j \in 1..len_b :
                  Cell(matrix', i, j) =
                      Min(Cell(matrix', i - 1, j) + 1,
                          Min(Cell(matrix', i, j - 1) + 1,
                              Cell(matrix', i - 1, j - 1)
                                  + (IF chars_nth(query', i - 1) = chars_nth(data', j - 1)
                                     THEN 0 ELSE 1)))]_vars

\* C21: every call similarity(q) or weighted_similarity(q) updates the state
\* first, so that the stored query is q after it, and no call changes the
\* stored data, which stays the value given to new.
C21_QueryStoredDataKept ==
    [][/\ data' = data
       /\ query' = new_query']_vars

C21_Witness ==
    /\ pc = "weighted_similarity"
    /\ new_query = <<233, 98>> /\ query = <<233, 98>>
    /\ data = <<97, 98>>
    /\ ~again

\* C22: the stored matrix has query.len() + 1 rows of data.len() + 1 cells
\* each after any sequence of updates, so every index of update, similarity
\* and the backtrace is within the matrix.
C22_MatrixDimensions ==
    /\ Len(matrix) = str_len(query) + 1
    /\ \A i \in 1..Len(matrix) : Len(matrix[i]) = str_len(data) + 1

C22_Witness ==
    /\ pc = "similarity"
    /\ query = <<233>> /\ data = <<97, 233>>
    /\ Len(matrix) = 3 /\ Len(matrix[3]) = 4
    /\ matrix # levenshtein_matrix(query, data)

\* C25: weighted_similarity returns after every sequence of updates: the
\* backtrace loop always finds its cell equal to one of the three candidates.
C25_WeightedSimilarityReturns == pc # "hung"

\* C26: the distance similarity reads from the last cell of the stored matrix
\* is at most the larger of query.len() and data.len(), so the subtraction
\* does not underflow and the similarity returned lies in [0.0, 1.0].
C26_IncrementalSimilarityInUnitInterval ==
    /\ Cell(matrix, str_len(query), str_len(data)) <= Max(str_len(query), str_len(data))
    /\ pc = "similarity" =>
           /\ ret.s = 0
           /\ F64Leq(Zero, ret) /\ F64Leq(ret, One)

C26_Witness ==
    /\ pc = "similarity"
    /\ query = <<98, 98>> /\ data = <<97>>
    /\ matrix = <<<<0, 1>>, <<1, 1>>, <<2, 1>>>>
    /\ ret = F64(1, 2)

\* C30: a second similarity(q) right after similarity(q) returns the same
\* value and leaves the stored query and every cell of the matrix unchanged.
C30_RepeatedCallChangesNothing ==
    [][(again' /\ pc' = "similarity") =>
          (ret' = ret /\ query' = query /\ matrix' = matrix)]_vars

C30_Witness ==
    /\ again
    /\ pc = "similarity"
    /\ query = <<233, 97>> /\ data = <<97>>
    /\ matrix # levenshtein_matrix(query, data)

---------------------------------------------------------------------------
\* Properties of the search engine

\* The engine's last call was a ranking call that returned.
Ranked == epc \in {"similarities", "search", "into_similarities", "into_search"}

\* How often the value v occurs among the entries of a list of records.
Count(list, v) == Cardinality({i \in 1..Len(list) : list[i].value = v})

\* C2: after every query, the stateful engine (IncrementalLevenshtein state,
\* weighted_similarity) and the stateless engine (weighted_levenshtein_similarity)
\* over the same items give every item the same score.
C2_StatefulScoresAsStateless ==
    epc = "similarities" =>
        /\ \A i \in 1..Len(result) : \E j \in 1..Len(regular_result) :
               /\ regular_result[j].value = result[i].value
               /\ F64Eq(regular_result[j].score, result[i].score)
        /\ \A j \in 1..Len(regular_result) : \E i \in 1..Len(result) :
               /\ regular_result[j].value = result[i].value
               /\ F64Eq(regular_result[j].score, result[i].score)

\* C4: with exactly two scoring functions f (weight w1) and g (weight w2), the
\* combined score of every item is max(w1 * f(item, query), w2 * g(item, query)),
\* also when both weighted scores are negative.
C4_CombinedIsMaxOfTwo ==
    (/\ Ranked
     /\ Len(engine.similarity) = 2
     /\ \A k \in 1..2 : engine.similarity[k].kind = "stateless") =>
        \A i \in 1..Len(result) :
            F64Eq(result[i].score,
                  F64Max(F64Mul(apply_function(engine.similarity[1].function,
                                               result[i].value, arg).score,
                                engine.similarity[1].weight),
                         F64Mul(apply_function(engine.similarity[2].function,
                                               result[i].value, arg).score,
                                engine.similarity[2].weight)))

\* C27: the combined score of every item is at least 0.0; an item whose
\* weighted scores are all negative, and every item of an engine with no
\* scoring function, gets exactly 0.0.
C27_CombinedScoreNonNegative ==
    Ranked =>
        \A i \in 1..Len(result) :
            /\ F64Leq(Zero, result[i].score)
            /\ (\A k \in 1..Len(engine.similarity) :
                    /\ engine.similarity[k].kind = "stateless"
                    /\ F64Less(F64Mul(apply_function(engine.similarity[k].function,
                                                     result[i].value, arg).score,
                                      engine.similarity[k].weight),
                               Zero))
                => result[i].score = Zero

\* An item with one negative weighted score ("a" against "b": 1 - 2 ln 2)
\* next to an item that scores 1.
C27_Witness ==
    /\ epc = "similarities"
    /\ engine.similarity = <<Stateless(One, "wls")>>
    /\ arg = <<98>>
    /\ Len(result) = 2
    /\ result[1].value = <<97>> /\ result[1].score = Zero
    /\ result[2].value = <<98>> /\ F64Eq(result[2].score, One)

\* The scores an engine's last ranking gave to the stored items equal to v.
ScoresOf(list, v) == {list[i].score : i \in {k \in 1..Len(list) : list[k].value = v}}

\* C24: two engines that were given the same two (weight, function) entries
\* in the two possible orders give every item the same score for every query.
C24_OrderOfFunctionsIrrelevant ==
    epc = "similarities" =>
        /\ Len(result) = Len(regular_result)
        /\ \A v \in Items :
               \A x \in ScoresOf(result, v), y \in ScoresOf(regular_result, v) : F64Eq(x, y)

\* The two orders differ, the item "a" scores 1/2 under the half weight
\* alone and 1 in both engines.
C24_Witness ==
    /\ epc = "similarities"
    /\ engine.similarity = <<Stateful(One, "inc_weighted"), Stateless(Half, "wls")>>
    /\ regular.similarity = <<Stateless(Half, "wls"), Stateful(One, "inc_weighted")>>
    /\ arg = <<97>>
    /\ \E i \in 1..Len(result) : result[i].value = <<97>> /\ F64Eq(result[i].score, One)
    /\ \E i \in 1..Len(regular_result) :
           regular_result[i].value = <<97>> /\ F64Eq(regular_result[i].score, One)
    /\ \E i \in 1..Len(result) : result[i].value = <<98>>

\* C5: the list a ranking call returns is in ascending order of the combined
\* score: each entry's score is less than or equal to its successor's, and
\* search / into_search return the values of that list in that order.
C5_ResultsAscending ==
    Ranked =>
        /\ \A i \in 1..(Len(result) - 1) : F64Leq(result[i].score, result[i + 1].score)
        /\ epc \in {"search", "into_search"} => found = drop_scores(result)

C5_Witness ==
    /\ epc = "search"
    /\ Len(result) = 2
    /\ F64Less(result[1].score, result[2].score)
    /\ found = <<result[1].value, result[2].value>>

\* C6: a ranking call returns the items in descending order of the combined
\* score, the item with the highest score first.
C6_ResultsDescending ==
    Ranked =>
        \A i \in 1..(Len(result) - 1) : F64Leq(result[i + 1].score, result[i].score)

\* C7: the result of a ranking call holds each registered item exactly once:
\* it is as long as the stored collection and holds the same values as often.
C7_EachItemOnce ==
    Ranked =>
        /\ Len(result) = Len(engine.values)
        /\ \A v \in Items : Count(result, v) = Count(engine.values, v)
        /\ epc \in {"search", "into_search"} => Len(found) = Len(engine.values)

C7_Witness ==
    /\ epc = "similarities"
    /\ Len(engine.values) = 2
    /\ engine.similarity # <<>>
    /\ result[1].value # engine.values[1].value

---------------------------------------------------------------------------
\* Properties of the pure functions

RECURSIVE SymbolDistance(_, _)
\* The edit distance of two sequences of symbols, by its recurrence.
SymbolDistance(x, y) ==
    IF x = <<>> THEN Len(y)
    ELSE IF y = <<>> THEN Len(x)
    ELSE Min(SymbolDistance(Tail(x), y) + 1,
             Min(SymbolDistance(x, Tail(y)) + 1,
                 SymbolDistance(Tail(x), Tail(y)) + (IF Head(x) = Head(y) THEN 0 ELSE 1)))

\* C10: strings are measured in Unicode scalar values, not bytes: the matrix
\* has (symbols of a + 1) rows of (symbols of b + 1) cells, levenshtein_distance
\* is the distance in symbols, and maxlen of levenshtein_similarity is the
\* larger count of symbols.
C10_MeasuredInScalarValues ==
    LET maxlen == Max(Len(a), Len(b)) IN
    /\ out.fn = "levenshtein_matrix" =>
           /\ Len(out.value) = Len(a) + 1
           /\ \A i \in 1..Len(out.value) : Len(out.value[i]) = Len(b) + 1
    /\ out.fn = "levenshtein_distance" => out.value = SymbolDistance(a, b)
    /\ out.fn = "levenshtein_similarity" =>
           F64Eq(out.value, IF maxlen = 0 THEN Zero
                            ELSE F64(maxlen - SymbolDistance(a, b), maxlen))

\* C11: every cell (i, j) of levenshtein_matrix(a, b) is the least number of
\* single-symbol insertions, deletions and substitutions that turn the first
\* i symbols of a into the first j symbols of b, and levenshtein_distance(a, b)
\* is the Levenshtein distance of a and b.
C11_CellsAreEditDistances ==
    /\ out.fn = "levenshtein_matrix" =>
           \A i \in 0..Len(a), j \in 0..Len(b) :
               Cell(out.value, i, j) = SymbolDistance(SubSeq(a, 1, i), SubSeq(b, 1, j))
    /\ out.fn = "levenshtein_distance" => out.value = SymbolDistance(a, b)

\* C12: levenshtein_distance(a, b) = levenshtein_distance(b, a).
C12_DistanceSymmetric ==
    out.fn = "levenshtein_distance" => out.value = levenshtein_distance(b, a)

C12_Witness ==
    /\ out.fn = "levenshtein_distance"
    /\ a = <<98, 97>> /\ b = <<233>>
    /\ out.value = 2

\* C13: levenshtein_distance(a, a) = 0 for every a, the empty string
\* included, and levenshtein_similarity(a, a) = 1.0 for every a but the empty one.
C13_IdenticalStrings ==
    a = b =>
        /\ out.fn = "levenshtein_distance" => out.value = 0
        /\ (out.fn = "levenshtein_similarity" /\ a # <<>>) => F64Eq(out.value, One)

C13_Witness ==
    /\ a = <<233, 97>> /\ b = a
    /\ out.fn = "levenshtein_similarity"
    /\ out.value = F64(3, 3)

\* C14: levenshtein_distance(a, b) is at most the larger of a.len() and b.len(),
\* so max_distance - distance does not underflow and
\* levenshtein_similarity(a, b) lies in [0.0, 1.0].
C14_SimilarityInUnitInterval ==
    /\ out.fn = "levenshtein_distance" => out.value <= Max(str_len(a), str_len(b))
    /\ out.fn = "levenshtein_similarity" =>
           /\ out.value.s = 0
           /\ F64Leq(Zero, out.value) /\ F64Leq(out.value, One)

C14_Witness ==
    /\ out.fn = "levenshtein_similarity"
    /\ a = <<97, 98>> /\ b = <<233>>
    /\ out.value = F64(0, 2)

RECURSIVE RunCosts(_)
\* ln(1 + L) for an Insert or a Delete run of length L, ln(1 + 1) twice for a
\* Substitute, added up from the first operation to the last.
RunCosts(ops) ==
    IF ops = <<>> THEN Zero
    ELSE LET before == RunCosts(SubSeq(ops, 1, Len(ops) - 1))
             op == ops[Len(ops)]
         IN  IF op[1] \in {"Insert", "Delete"} THEN F64Add(before, ln_1p(op[2]))
             ELSE IF op[1] = "Substitute" THEN F64Add(F64Add(before, ln_1p(1)), ln_1p(1))
             ELSE before

\* C19: weighted_levenshtein_similarity(a, b) = (maxlen - cost) / maxlen, cost
\* the sum over the backtraced edit operations of ln(1 + L) for an Insert or
\* Delete run of length L and of ln(1 + 1) twice for a Substitute, matching
\* symbols adding nothing, maxlen the larger of a.len() and b.len().
C19_WeightedSimilarityFormula ==
    LET maxlen == Max(str_len(a), str_len(b))
        ops == edit_operations(levenshtein_matrix(a, b), a, b).ops
    IN  /\ out.fn # "hung"
        /\ out.fn = "weighted_levenshtein_similarity" =>
               /\ maxlen > 0 =>
                      F64Eq(out.value, F64Div(F64Sub(as_f64(maxlen), RunCosts(ops)),
                                              as_f64(maxlen)))
               /\ (a = b /\ maxlen > 0) => F64Eq(out.value, One)
               /\ \A k \in 1..Len(ops) : ops[k][1] \in {"Insert", "Delete", "Substitute"}

C19_Witness ==
    /\ out.fn = "weighted_levenshtein_similarity"
    /\ a = <<97, 98>> /\ b = <<98>>
    /\ out.value = F64Div(F64Sub(as_f64(2), ln_1p(1)), as_f64(2))

\* The state a stored pair holds, slot by slot.
FreshStates(e) ==
    \A i \in 1..Len(e.values) : e.values[i].state = sim_state(e.similarity, e.values[i].value)

\* The number of stateful links of a chain.
StatefulLinks(chain) == Cardinality({k \in 1..Len(chain) : chain[k].kind = "stateful"})

\* C16: adding a scoring function to an engine that holds items rebuilds the
\* state of every item: afterwards each state has one slot per stateful
\* function, and each slot is freshly constructed, with no effect of the
\* queries ranked before.
C16_AddingFunctionRebuildsStates ==
    [][engine'.similarity # engine.similarity =>
          /\ \A i \in 1..Len(engine'.values) :
                 Len(engine'.values[i].state) = StatefulLinks(engine'.similarity)
          /\ FreshStates(engine')]_vars

\* The stored items, in stored order.
StoredItems(e) == [i \in 1..Len(e.values) |-> e.values[i].value]

\* C18: the stored collection is in insertion order: adding a value appends
\* it, adding a scoring function keeps the order, and a ranking call sorts a
\* derived list only and leaves the stored items and their order unchanged.
C18_StoredOrderIsInsertionOrder ==
    [][/\ Len(engine'.values) >= Len(engine.values)
       /\ SubSeq(StoredItems(engine'), 1, Len(engine.values)) = StoredItems(engine)
       /\ Len(engine'.values) <= Len(engine.values) + 1
       /\ (engine'.similarity # engine.similarity \/ epc' # "built") =>
              StoredItems(engine') = StoredItems(engine)]_vars

C18_Witness ==
    /\ epc = "similarities"
    /\ StoredItems(engine) = <<<<97>>, <<>>>>
    /\ Len(engine.similarity) = 2
    /\ result[1].value = <<>> /\ result[2].value = <<97>>
    /\ F64Less(result[1].score, result[2].score)

\* C17: par_similarities(query) gives every item the score, and leaves every
\* item's state in the value, that the sequential similarities(query) gives,
\* whatever the order of the per-item tasks.
C17_ParallelAsSequential ==
    (epc = "par_similarities" \/ (epc = "par_running" /\ tasks.pending = {})) =>
        \A seq \in {similarities(tasks.before, tasks.query)},
           scored \in {score_all(tasks.before, tasks.query)} :
            /\ epc = "par_similarities" =>
                   /\ ~seq.hang
                   /\ engine = seq.engine
                   /\ result \in seq.results
            /\ epc = "par_running" =>
                   \A i \in 1..Len(engine.values) :
                       /\ engine.values[i].state = seq.engine.values[i].state
                       /\ tasks.scored[i].score = scored[i].score

C17_Witness ==
    /\ epc = "par_similarities"
    /\ Len(engine.values) = 2
    /\ engine.values[1].value # engine.values[2].value
    /\ tasks.query # <<>>
    /\ tasks.before.values[1].state # engine.values[1].state
    /\ ~F64Eq(result[1].score, result[2].score)

---------------------------------------------------------------------------
\* Properties of the backtrace

\* The backtrace stands on a cell of the matrix, away from row 0 and column 0.
OnCell == out.fn = "edit_operations" /\ out.value.at # "done" /\ out.value.i > 0 /\ out.value.j > 0

\* The step leaves the cell.
Moves == out'.value.i # out.value.i \/ out'.value.j # out.value.j

\* C23: at every cell the backtrace of edit_operations visits on a matrix built
\* by levenshtein_matrix: when the aligned symbols match the step is diagonal
\* and emits no operation; otherwise the step is the first of substitution,
\* deletion, insertion whose cost equals the value of the cell.
C23_BacktraceTieBreak ==
    [][(OnCell /\ Moves) =>
        LET m == levenshtein_matrix(a, b)
            s == out.value
            t == out'.value
            current == Cell(m, s.i, s.j)
            same == chars_nth(a, s.i - 1) = chars_nth(b, s.j - 1)
            diagonal == t.i = s.i - 1 /\ t.j = s.j - 1
        IN  IF same THEN diagonal /\ t.ops = s.ops
            ELSE IF current = Cell(m, s.i - 1, s.j - 1) + 1
            THEN diagonal /\ t.ops = Append(s.ops, <<"Substitute", 1, 1>>)
            ELSE IF current = Cell(m, s.i - 1, s.j) + 1
            THEN t.i = s.i - 1 /\ t.j = s.j
            ELSE current = Cell(m, s.i, s.j - 1) + 1 /\ t.i = s.i /\ t.j = s.j - 1]_vars

RECURSIVE EditCount(_)
\* The run lengths of the Insert and Delete operations plus the number of
\* Substitute operations.
EditCount(ops) ==
    IF ops = <<>> THEN 0
    ELSE (IF Head(ops)[1] \in {"Insert", "Delete"} THEN Head(ops)[2]
          ELSE IF Head(ops)[1] = "Substitute" THEN 1 ELSE 0)
         + EditCount(Tail(ops))

\* C28: the operations edit_operations(levenshtein_matrix(a, b), a, b) returns
\* account for the whole distance: the run lengths of the Insert and Delete
\* operations plus the number of Substitute operations add up to
\* levenshtein_distance(a, b).
C28_OperationsAddUpToDistance ==
    (out.fn = "edit_operations" /\ out.value.at = "done") =>
        EditCount(out.value.ops) = levenshtein_distance(a, b)

\* "a" into "bb": one insertion and one substitution, distance 2.
C28_Witness ==
    /\ out.fn = "edit_operations" /\ out.value.at = "done"
    /\ a = <<97>> /\ b = <<98, 98>>
    /\ out.value.ops = <<<<"Insert", 1>>, <<"Substitute", 1, 1>>>>
    /\ levenshtein_distance(a, b) = 2

\* C29: weighted_levenshtein_similarity is symmetric in its arguments:
\* weighted_levenshtein_similarity(a, b) == weighted_levenshtein_similarity(b, a)
\* for all strings a and b.
C29_WeightedSimilaritySymmetric ==
    out.fn = "weighted_levenshtein_similarity" =>
        F64Eq(out.value, weighted_levenshtein_similarity(b, a).score)

====
